---- MODULE Spec2Model ----
(***************************************************************************)
(* A model of the trading-simulation core of AkBack:                       *)
(*   src/src/backtest/account.py   the ledger (Account)                    *)
(*   src/src/backtest/engine.py    Order, BacktestEngine                   *)
(*   src/src/backtest/runner.py    PortfolioRunner                         *)
(*                                                                         *)
(* Money.  The program keeps money in Python floats.  The model keeps it   *)
(* as an exact integer number of ticks, one tick being 1/Scale yuan        *)
(* (0.0001 yuan).  Prices are whole yuan, so that every trade amount,      *)
(* commission (0.03%) and stamp duty (0.05%) is a whole number of ticks    *)
(* and the arithmetic of the model is the exact arithmetic the floats      *)
(* approximate.  Floating-point rounding is modelled in one place, the     *)
(* truncated quotient of get_max_buyable and of the engine's sizing of a   *)
(* BUY order (see FloatQuotients), where it changes a quantity by a lot.   *)
(*                                                                         *)
(* Spec        drives one Account with arbitrary buy / sell / settle calls *)
(* SpecMaxBuy  asks get_max_buyable and buys at the price asked about      *)
(* SpecFees    is Spec with amounts on both sides of the commission floor  *)
(* SpecValue   is Spec with lots of both symbols and update_market_value   *)
(* SpecEngine  is BacktestEngine.run_single_stock over a bar series        *)
(* SpecRunner  is PortfolioRunner.run over a range of calendar dates       *)
(* SpecSim     is either of the two                                        *)
(* SpecRerun   is SpecSim with the run repeated on the same instance       *)
(***************************************************************************)
EXTENDS Integers, Sequences, FiniteSets, TLC

VARIABLES
    account,        \* the Account object: [cash, positions, total_assets];
                    \* None in an engine that returned before creating it
    call,           \* the last call made on the ledger: [op, symbol, price, quantity]
    ret,            \* what that call returned: [ok, msg, details]
    nops,           \* number of ledger calls made so far (Spec)
    heldAtSettle,   \* history: per symbol, the total held at the last settle()
    soldSince,      \* history: per symbol, the quantity sold since the last settle()
    settlesInARow,  \* history: how many of the latest ledger calls were settle()
    bars,           \* engine: the bar series df, in date order
    i,              \* engine: index of the bar the loop is at (1-based)
    pc,             \* engine: position inside the loop body
    pending_order,  \* engine: <<>> (None) or <<order>>
    executed,       \* engine: <<>> or <<order>>, the order last passed to _execute_order
    trades,         \* engine, runner: self.trades
    daily_curves,   \* engine, runner: self.daily_curves
    stock_data,     \* runner: what data_loader.load_stock_data returns, per symbol
    current_symbol, \* runner: self.current_symbol
    current_stock_data, \* runner: the symbol whose frame self.current_stock_data is
    target_symbol,  \* runner: the local target_symbol of the loop body
    events,         \* history: what the latest iteration of the engine's or the
                    \* runner's loop has done so far, in order
    initial_capital, \* engine, runner: self.initial_capital, in ticks
    run             \* engine, runner: which call of run / run_single_stock on
                    \* the instance this is (1 for the first)

vars == <<account, call, ret, nops, heldAtSettle, soldSince, settlesInARow,
          bars, i, pc, pending_order, executed, trades, daily_curves,
          stock_data, current_symbol, current_stock_data, target_symbol, events,
          initial_capital, run>>

ledgerVars == <<account, call, ret, nops, heldAtSettle, soldSince, settlesInARow>>
instanceVars == <<initial_capital, run>>
engineVars == <<bars, i, pc, pending_order, executed, trades, daily_curves,
                initial_capital, run>>
rotationVars == <<stock_data, current_symbol, current_stock_data, target_symbol>>
runnerVars == <<stock_data, current_symbol, current_stock_data, target_symbol, events>>

----------------------------------------------------------------------------
(* Units and the trading constants of src/config.py *)

\* ticks per yuan
Scale == 10000
\* COMMISSION_RATE = 0.0003 = COMMISSION_RATE_NUM / Scale
COMMISSION_RATE_NUM == 3
\* MIN_COMMISSION = 5.0 yuan, in ticks
MIN_COMMISSION == 50000
\* STAMP_DUTY = 0.0005 = STAMP_DUTY_NUM / Scale
STAMP_DUTY_NUM == 5
\* the round lot of get_max_buyable and _execute_order
LOT == 100

Max(a, b) == IF a >= b THEN a ELSE b
Min(a, b) == IF a <= b THEN a ELSE b

\* floor(a * num / den) for den > 0, computed without forming a * num
MulDiv(a, num, den) == (a \div den) * num + ((a % den) * num) \div den

\* Python's int(a / b) for b > 0: truncation toward zero
TruncDiv(a, b) == IF a >= 0 THEN a \div b ELSE -((-a) \div b)

----------------------------------------------------------------------------
(* Bounds and input sets *)

\* ledger calls per behaviour of Spec
MaxOps == 4
\* bars per series of SpecEngine
MaxBars == 3

Symbols == {"A", "B"}
\* prices, in whole yuan
Prices == {1, 10, 11}
Quantities == {-100, 0, 1, 1000}
\* initial_capital, in ticks: 6 yuan (the cost of one share at 1 yuan) and the
\* default 100000 yuan
InitialCapitals == {6 * Scale, 100000 * Scale}

----------------------------------------------------------------------------
(* Account: src/src/backtest/account.py *)

NoPositions == [s \in {} |-> [total |-> 0, sellable |-> 0]]

\* Account.__init__
Account(capital) ==
    [cash |-> capital, positions |-> NoPositions, total_assets |-> capital]

\* the amount price * quantity, in ticks
TradeAmount(price, quantity) == price * quantity * Scale

\* Account._get_commission (faulty variant: the floor left out)
commission_noFloor(trade_amount) == MulDiv(trade_amount, COMMISSION_RATE_NUM, Scale)
_get_commission(trade_amount) ==
    Max(MulDiv(trade_amount, COMMISSION_RATE_NUM, Scale), MIN_COMMISSION)

_get_stamp_duty(trade_amount) == MulDiv(trade_amount, STAMP_DUTY_NUM, Scale)

Result(acct, ok, msg, details) ==
    [account |-> acct, ret |-> [ok |-> ok, msg |-> msg, details |-> details]]

\* buy, lines 36-38: trade amount plus commission
\* (faulty variant: the commission left out)
buy_noCommission(trade_amount) == trade_amount
buy_total_cost(trade_amount) == trade_amount + _get_commission(trade_amount)

\* buy, line 40: the insufficient-cash test
\* (faulty variant: <= for <)
buy_rejectsExactCash(cash, total_cost) == cash <= total_cost
buy_insufficient_cash(cash, total_cost) == cash < total_cost

\* buy, lines 47-51: the entry of the bought symbol; sellable does not increase
\* (faulty variant: the bought shares sellable at once)
buy_unlocksAtOnce(old, quantity) ==
    [total |-> old.total + quantity, sellable |-> old.sellable + quantity]
buy_position(old, quantity) ==
    [total |-> old.total + quantity, sellable |-> old.sellable]

\* Account.buy: the ledger after the call and the returned tuple
buy(acct, symbol, price, quantity) ==
    LET trade_amount == TradeAmount(price, quantity)
        commission   == _get_commission(trade_amount)
        total_cost   == buy_total_cost(trade_amount)
        old == IF symbol \in DOMAIN acct.positions
               THEN acct.positions[symbol]
               ELSE [total |-> 0, sellable |-> 0]
        pos == [s \in DOMAIN acct.positions \cup {symbol} |->
                   IF s = symbol THEN buy_position(old, quantity)
                                 ELSE acct.positions[s]]
    IN  IF quantity <= 0
        THEN Result(acct, FALSE, "Quantity must be positive", <<>>)
        ELSE IF buy_insufficient_cash(acct.cash, total_cost)
        THEN Result(acct, FALSE, "Insufficient cash", <<>>)
        ELSE Result([acct EXCEPT !.cash = acct.cash - total_cost, !.positions = pos],
                    TRUE, "Success",
                    <<[symbol |-> symbol, action |-> "BUY", price |-> price,
                       quantity |-> quantity, commission |-> commission,
                       stamp_duty |-> 0, total_cost |-> total_cost]>>)

\* sell, line 75: the quantity available for sale
\* (faulty variant: the total held taken for the sellable quantity)
sell_checksTotal(acct, symbol) == acct.positions[symbol].total
sell_available_qty(acct, symbol) == acct.positions[symbol].sellable

\* sell, lines 79-82: the proceeds net of commission and stamp duty
\* (faulty variant: the stamp duty left out)
sell_noStampDuty(trade_amount) == trade_amount - _get_commission(trade_amount)
sell_net_revenue(trade_amount) ==
    trade_amount - _get_commission(trade_amount) - _get_stamp_duty(trade_amount)

\* sell, lines 88-89: the entry of the sold symbol
\* (faulty variant: sellable not reduced)
sell_keepsSellable(old, quantity) ==
    [total |-> old.total - quantity, sellable |-> old.sellable]
sell_position(old, quantity) ==
    [total |-> old.total - quantity, sellable |-> old.sellable - quantity]

\* sell, lines 91-93: the mapping once the entry of symbol has become new
\* (faulty variant: the emptied entry is left in the mapping)
sell_keepsEmptyEntry(positions, symbol, new) == [positions EXCEPT ![symbol] = new]
sell_cleanup(positions, symbol, new) ==
    IF new.total = 0
    THEN [s \in DOMAIN positions \ {symbol} |-> positions[s]]
    ELSE [positions EXCEPT ![symbol] = new]

\* sell, line 85: the cash after the sale
\* (faulty variant: the revenue not credited)
sell_cash_unchanged(cash, net_revenue) == cash
sell_cash(cash, net_revenue) == cash + net_revenue

\* Account.sell
sell(acct, symbol, price, quantity) ==
    LET trade_amount == TradeAmount(price, quantity)
        commission   == _get_commission(trade_amount)
        stamp_duty   == _get_stamp_duty(trade_amount)
        net_revenue  == sell_net_revenue(trade_amount)
        new == sell_position(acct.positions[symbol], quantity)
        pos == sell_cleanup(acct.positions, symbol, new)
    IN  IF quantity <= 0
        THEN Result(acct, FALSE, "Quantity must be positive", <<>>)
        ELSE IF symbol \notin DOMAIN acct.positions
        THEN Result(acct, FALSE, "Symbol not in portfolio", <<>>)
        ELSE IF sell_available_qty(acct, symbol) < quantity
        THEN Result(acct, FALSE, "Insufficient sellable quantity", <<>>)
        ELSE Result([acct EXCEPT !.cash = sell_cash(acct.cash, net_revenue),
                                 !.positions = pos],
                    TRUE, "Success",
                    <<[symbol |-> symbol, action |-> "SELL", price |-> price,
                       quantity |-> quantity, commission |-> commission,
                       stamp_duty |-> stamp_duty, net_revenue |-> net_revenue]>>)

\* settle, line 124: the entry of one symbol after settlement
\* (faulty variants: the assignment reversed; += for =)
settle_swapped(p) == [total |-> p.sellable, sellable |-> p.sellable]
settle_accumulates(p) == [total |-> p.total, sellable |-> p.sellable + p.total]
settle_position(p) == [total |-> p.total, sellable |-> p.total]

\* Account.settle
\* (faulty variant: nothing unlocked)
settle_unlocks_nothing(acct) == acct
settle(acct) ==
    [acct EXCEPT !.positions =
        [s \in DOMAIN acct.positions |-> settle_position(acct.positions[s])]]

\* the total held of a symbol, 0 when it has no entry
TotalOf(acct, s) == IF s \in DOMAIN acct.positions THEN acct.positions[s].total ELSE 0
SellableOf(acct, s) == IF s \in DOMAIN acct.positions THEN acct.positions[s].sellable ELSE 0

\* update_market_value, line 114: what one position adds to the market value
\* (faulty variant: only the sellable shares counted)
position_value_sellable(pos, price) == pos.sellable * price * Scale
position_value(pos, price) == pos.total * price * Scale

\* Account.update_market_value: the sum of total * price over the symbols of S,
\* a symbol that current_prices lacks priced at 0
RECURSIVE market_value(_, _, _)
market_value(acct, current_prices, S) ==
    IF S = {} THEN 0
    ELSE LET s == CHOOSE x \in S : TRUE
             price == IF s \in DOMAIN current_prices THEN current_prices[s] ELSE 0
         IN  position_value(acct.positions[s], price)
                 + market_value(acct, current_prices, S \ {s})

update_market_value(acct, current_prices) ==
    [acct EXCEPT !.total_assets =
        acct.cash + market_value(acct, current_prices, DOMAIN acct.positions)]

\* Python divides two doubles and int() truncates the quotient. With every
\* amount a multiple of a tick and every price in whole yuan, the double
\* quotient cash / (price * (1 + COMMISSION_RATE)) lands on the other side of
\* an integer only when the exact quotient IS that integer and the double
\* divisor is above the exact price * 1.0003, which it is at 10 and 220 yuan and
\* is not at 1, 11 and 221 yuan: 17005.1 / (10.0 * 1.0003) is 1699.9999999999998 and
\* int() makes it 1699. For which amounts such a division comes out below
\* is a matter of the last bits of the amount, so it is a choice among
\* FloatQuotients.
FloatQuotients == {"exact", "below"}
\* the prices of the model whose double price * (1 + COMMISSION_RATE) is
\* above the exact product
FloatDivisorAbove == {10, 220}
\* int(a / (price * (1 + COMMISSION_RATE))) for a quotient q that is exact or not
FloatInt(q, exact, price, fp) ==
    IF fp = "below" /\ exact /\ q > 0 /\ price \in FloatDivisorAbove THEN q - 1 ELSE q

\* get_max_buyable, line 155: floor to the lot
\* (faulty variant: the estimate returned as it is)
lot_unrounded(max_q) == max_q
lot_floor(max_q) == (max_q \div LOT) * LOT

\* Account.get_max_buyable; price * (1 + COMMISSION_RATE) yuan is
\* price * (Scale + COMMISSION_RATE_NUM) ticks
\* (faulty variant: the smaller estimate returned without the lot floor)
get_max_buyable_shares(acct, price, fp) ==
    IF price <= 0 THEN 0
    ELSE LET den == price * (Scale + COMMISSION_RATE_NUM)
             q1 == FloatInt(TruncDiv(acct.cash, den), acct.cash % den = 0, price, fp)
             q2 == TruncDiv(acct.cash - MIN_COMMISSION, price * Scale)
         IN  Max(Min(q1, q2), 0)
get_max_buyable(acct, price, fp) ==
    IF price <= 0 THEN 0
    ELSE LET den == price * (Scale + COMMISSION_RATE_NUM)
             q1 == FloatInt(TruncDiv(acct.cash, den), acct.cash % den = 0, price, fp)
             q2 == TruncDiv(acct.cash - MIN_COMMISSION, price * Scale)
             max_q == Min(q1, q2)
         IN  IF max_q < 0 THEN 0 ELSE lot_floor(max_q)

----------------------------------------------------------------------------
(* Spec: arbitrary calls on one ledger *)

NoCall == [op |-> "init", symbol |-> "", price |-> 0, quantity |-> 0]
NoRet == [ok |-> TRUE, msg |-> "", details |-> <<>>]

\* Python's None where a symbol is expected
None == "None"

EngineIdle ==
    /\ initial_capital = 0
    /\ run = 1
    /\ bars = <<>>
    /\ i = 0
    /\ pc = "idle"
    /\ pending_order = <<>>
    /\ executed = <<>>
    /\ trades = <<>>
    /\ daily_curves = <<>>

\* PortfolioRunner.__init__
RunnerIdle ==
    /\ stock_data = <<>>
    /\ current_symbol = None
    /\ current_stock_data = None
    /\ target_symbol = None
    /\ events = <<>>

Init ==
    /\ \E c \in InitialCapitals : account = Account(c)
    /\ call = NoCall
    /\ ret = NoRet
    /\ nops = 0
    /\ heldAtSettle = [s \in Symbols |-> 0]
    /\ soldSince = [s \in Symbols |-> 0]
    /\ settlesInARow = 0
    /\ EngineIdle
    /\ RunnerIdle

Buy(symbol, price, quantity) ==
    LET r == buy(account, symbol, price, quantity)
    IN  /\ nops < MaxOps
        /\ account' = r.account
        /\ ret' = r.ret
        /\ call' = [op |-> "buy", symbol |-> symbol, price |-> price, quantity |-> quantity]
        /\ nops' = nops + 1
        /\ settlesInARow' = 0
        /\ UNCHANGED <<heldAtSettle, soldSince>>
        /\ UNCHANGED engineVars
        /\ UNCHANGED runnerVars

Sell(symbol, price, quantity) ==
    LET r == sell(account, symbol, price, quantity)
    IN  /\ nops < MaxOps
        /\ account' = r.account
        /\ ret' = r.ret
        /\ call' = [op |-> "sell", symbol |-> symbol, price |-> price, quantity |-> quantity]
        /\ nops' = nops + 1
        /\ soldSince' = IF r.ret.ok
                        THEN [soldSince EXCEPT ![symbol] = @ + quantity]
                        ELSE soldSince
        /\ settlesInARow' = 0
        /\ UNCHANGED heldAtSettle
        /\ UNCHANGED engineVars
        /\ UNCHANGED runnerVars

Settle ==
    /\ nops < MaxOps
    /\ account' = settle(account)
    /\ ret' = NoRet
    /\ call' = [op |-> "settle", symbol |-> "", price |-> 0, quantity |-> 0]
    /\ nops' = nops + 1
    /\ heldAtSettle' = [s \in Symbols |-> TotalOf(account, s)]
    /\ soldSince' = [s \in Symbols |-> 0]
    /\ settlesInARow' = settlesInARow + 1
    /\ UNCHANGED engineVars
    /\ UNCHANGED runnerVars

Next ==
    \/ \E s \in Symbols, p \in Prices, q \in Quantities : Buy(s, p, q)
    \/ \E s \in Symbols, p \in Prices, q \in Quantities : Sell(s, p, q)
    \/ Settle

Spec == Init /\ [][Next]_vars

----------------------------------------------------------------------------
(* SpecMaxBuy: get_max_buyable, and a buy at the price it was asked about *)

\* the cash of the ledger, in ticks: nothing, less than the minimum
\* commission, the exact cost of 100 and of 200 shares at 10 yuan and a yuan
\* beside it, the exact cost of 1700 and of 3400 shares at 10 yuan (17005.1
\* and 34010.2 yuan, where the commission is above its floor) and a yuan
\* beside it, and the default capital
MaxBuyCash ==
    {0, 3 * Scale, 1005 * Scale, 1006 * Scale, 2005 * Scale,
     17005 * Scale + Scale \div 10, 17006 * Scale,
     34010 * Scale + Scale \div 5, 100000 * Scale}
\* the prices asked about, in whole yuan
MaxBuyPrices == {-1, 0, 1, 10, 11}

InitMaxBuy ==
    /\ \E c \in MaxBuyCash : account = Account(c)
    /\ call = NoCall
    /\ ret = NoRet
    /\ nops = 0
    /\ heldAtSettle = [s \in Symbols |-> 0]
    /\ soldSince = [s \in Symbols |-> 0]
    /\ settlesInARow = 0
    /\ EngineIdle
    /\ RunnerIdle

\* a call of account.get_max_buyable(price); call.quantity holds what it returned
GetMaxBuyable(price, fp) ==
    /\ nops < MaxOps
    /\ call' = [op |-> "get_max_buyable", symbol |-> "", price |-> price,
                quantity |-> get_max_buyable(account, price, fp)]
    /\ ret' = NoRet
    /\ nops' = nops + 1
    /\ settlesInARow' = 0
    /\ UNCHANGED <<account, heldAtSettle, soldSince>>
    /\ UNCHANGED engineVars
    /\ UNCHANGED runnerVars

\* the buy that follows: of the quantity returned, of one lot more, or of one lot
NextMaxBuy ==
    \/ \E p \in MaxBuyPrices, fp \in FloatQuotients : GetMaxBuyable(p, fp)
    \/ /\ call.op = "get_max_buyable"
       /\ \E s \in Symbols, q \in {call.quantity, call.quantity + LOT, LOT} :
              Buy(s, call.price, q)

SpecMaxBuy == InitMaxBuy /\ [][NextMaxBuy]_vars

----------------------------------------------------------------------------
(* SpecFees: buys and sells whose amounts lie on both sides of the amount  *)
(* from which the commission exceeds its floor (MIN_COMMISSION /           *)
(* COMMISSION_RATE, 16666.67 yuan)                                         *)

FeeSymbol == "A"
FeePrices == {1, 10, 20}
FeeQuantities == {1, 1000, 2000}

InitFees ==
    /\ account = Account(100000 * Scale)
    /\ call = NoCall
    /\ ret = NoRet
    /\ nops = 0
    /\ heldAtSettle = [s \in Symbols |-> 0]
    /\ soldSince = [s \in Symbols |-> 0]
    /\ settlesInARow = 0
    /\ EngineIdle
    /\ RunnerIdle

NextFees ==
    \/ \E p \in FeePrices, q \in FeeQuantities : Buy(FeeSymbol, p, q)
    \/ \E p \in FeePrices, q \in FeeQuantities : Sell(FeeSymbol, p, q)
    \/ Settle

SpecFees == InitFees /\ [][NextFees]_vars

\* Valuations of a ledger that buys, sells and settles lots of both symbols:
\* the mappings current_prices, from any part of the symbols to a price
ValuePrices == {10, 11}
PriceMaps == UNION {[S -> ValuePrices] : S \in SUBSET Symbols}
\* the lot traded between valuations
ValueQuantity == 100

\* a call of update_market_value; the call record keeps the mapping and the
\* result record the value returned
UpdateMarketValue(current_prices) ==
    LET a == update_market_value(account, current_prices)
    IN  /\ nops < MaxOps
        /\ account' = a
        /\ call' = [op |-> "update_market_value", symbol |-> "", price |-> 0,
                    quantity |-> 0, current_prices |-> current_prices]
        /\ ret' = [ok |-> TRUE, msg |-> "", details |-> <<>>,
                   value |-> a.total_assets]
        /\ nops' = nops + 1
        /\ settlesInARow' = 0
        /\ UNCHANGED <<heldAtSettle, soldSince>>
        /\ UNCHANGED engineVars
        /\ UNCHANGED runnerVars

NextValue ==
    \/ \E s \in Symbols, p \in ValuePrices : Buy(s, p, ValueQuantity)
    \/ \E s \in Symbols, p \in ValuePrices : Sell(s, p, ValueQuantity)
    \/ Settle
    \/ \E current_prices \in PriceMaps : UpdateMarketValue(current_prices)

SpecValue == InitFees /\ [][NextValue]_vars

----------------------------------------------------------------------------
(* Order and BacktestEngine: src/src/backtest/engine.py *)

\* order.pct is a number of hundredths: PctDen stands for pct = 1.0
PctDen == 100
\* the pct from which an order means "everything": 0.99
PctAll == 99

\* Order.__init__; a quantity, pct or price of 0 stands for None (both are
\* false where the engine tests them)
Order(action, type, quantity, pct, price) ==
    [action |-> action, type |-> type, quantity |-> quantity, pct |-> pct,
     price |-> price]

\* the one symbol of an engine run
EngineSymbol == "A"
\* the engine's initial_capital, in ticks
EngineCapitals == {100000 * Scale}
\* the rows a series is made of: open and close, in whole yuan
BarPrices == {[open |-> 10, close |-> 11], [open |-> 11, close |-> 10]}
\* what strategy.on_bar may return besides None; the pct below 0.99 is 0.5,
\* a fraction whose products with whole numbers are exact in doubles
StrategyOrders ==
    {Order("BUY", "market", 0, 100, 0), Order("BUY", "market", 0, 50, 0),
     Order("BUY", "market", 150, 0, 0), Order("BUY", "market", 100, 0, 0),
     Order("BUY", "market", -100, 0, 0),
     Order("BUY", "limit", 0, 100, 10), Order("BUY", "limit", 0, 100, 11),
     Order("SELL", "market", 0, 99, 0), Order("SELL", "market", 0, 50, 0),
     Order("SELL", "market", 150, 0, 0), Order("SELL", "limit", 0, 100, 11),
     Order("SELL", "limit", 0, 100, 10)}

\* _execute_order, lines 109-120: a limit order the execution price does not reach
\* (faulty variant: an execution price equal to the limit blocks the order too)
limit_blocked_atEqual(order, execution_price) ==
    /\ order.type = "limit"
    /\ \/ order.action = "BUY" /\ execution_price >= order.price
       \/ order.action = "SELL" /\ execution_price <= order.price
limit_blocked(order, execution_price) ==
    /\ order.type = "limit"
    /\ \/ order.action = "BUY" /\ execution_price > order.price
       \/ order.action = "SELL" /\ execution_price < order.price

\* _execute_order, lines 128-159: the quantity of a BUY order
\* (faulty variant: every pct taken for all the cash)
buy_order_allIn(acct, order, execution_price, fp) ==
    IF order.pct # 0 THEN get_max_buyable(acct, execution_price, fp)
    ELSE IF order.quantity # 0 THEN order.quantity
    ELSE 0
buy_order_quantity(acct, order, execution_price, fp) ==
    IF order.pct # 0
    THEN IF order.pct >= PctAll
         THEN get_max_buyable(acct, execution_price, fp)
         ELSE LET den == PctDen * execution_price * (Scale + COMMISSION_RATE_NUM)
                  q == IF acct.cash >= 0 THEN MulDiv(acct.cash, order.pct, den)
                                         ELSE -MulDiv(-acct.cash, order.pct, den)
                  exact == acct.cash >= 0
                           /\ ((acct.cash % den) * order.pct) % den = 0
              IN  (FloatInt(q, exact, execution_price, fp) \div LOT) * LOT
    ELSE IF order.quantity # 0 THEN order.quantity
    ELSE 0

\* _execute_order, lines 175 and 182: int(current_pos * pct) floored to the lot
\* (faulty variant: rounded up to the lot)
sell_fraction_roundsUp(current_pos, pct) ==
    ((MulDiv(current_pos, pct, PctDen) + LOT - 1) \div LOT) * LOT
sell_fraction(current_pos, pct) ==
    (MulDiv(current_pos, pct, PctDen) \div LOT) * LOT

\* _execute_order, lines 172-184: the quantity of a SELL order
\* (faulty variant: pct >= 0.99 rounded down to the lot like any other pct)
sell_order_roundsAll(acct, order, symbol) ==
    LET current_pos == SellableOf(acct, symbol)
    IN  IF order.pct # 0
        THEN (MulDiv(current_pos, order.pct, PctDen) \div LOT) * LOT
        ELSE IF order.quantity # 0 THEN order.quantity
        ELSE 0
sell_order_quantity(acct, order, symbol) ==
    LET current_pos == SellableOf(acct, symbol)
    IN  IF order.pct # 0
        THEN IF order.pct >= PctAll
             THEN current_pos
             ELSE sell_fraction(current_pos, order.pct)
        ELSE IF order.quantity # 0 THEN order.quantity
        ELSE 0

\* a fill with the date _execute_order stamps on it
Dated(details, date) ==
    IF details.action = "BUY"
    THEN [symbol |-> details.symbol, action |-> "BUY", price |-> details.price,
          quantity |-> details.quantity, commission |-> details.commission,
          stamp_duty |-> details.stamp_duty, total_cost |-> details.total_cost,
          date |-> date]
    ELSE [symbol |-> details.symbol, action |-> "SELL", price |-> details.price,
          quantity |-> details.quantity, commission |-> details.commission,
          stamp_duty |-> details.stamp_duty, net_revenue |-> details.net_revenue,
          date |-> date]

\* _execute_order, lines 164-165 and 189-190, and run, lines 109-110 and
\* 141-142: the fill is stamped with the date and appended to the trade log
\* (faulty variant: the fill put at the head of the log)
log_prepends(trds, details, date) == <<Dated(details, date)>> \o trds
log_fill(trds, details, date) == Append(trds, Dated(details, date))

\* _execute_order, lines 161 and 186: only a positive quantity goes to the ledger
\* (faulty variant: every quantity goes to the ledger)
order_trades_any(quantity) == TRUE
order_trades(quantity) == quantity > 0

\* BacktestEngine._execute_order: the ledger and the trade log after it, and
\* the ledger call it made, if any (calls is <<>> or <<[call, ret]>>)
_execute_order(acct, trds, order, symbol, date, execution_price, fp) ==
    LET none == [account |-> acct, trades |-> trds, calls |-> <<>>]
        done(op, r, quantity) ==
            [account |-> r.account,
             trades |-> IF r.ret.ok THEN log_fill(trds, r.ret.details[1], date)
                                    ELSE trds,
             calls |-> <<[call |-> [op |-> op, symbol |-> symbol,
                                    price |-> execution_price, quantity |-> quantity],
                          ret |-> r.ret]>>]
    IN  IF limit_blocked(order, execution_price) THEN none
        ELSE IF order.action = "BUY"
        THEN LET quantity == buy_order_quantity(acct, order, execution_price, fp)
             IN  IF order_trades(quantity)
                 THEN done("buy", buy(acct, symbol, execution_price, quantity), quantity)
                 ELSE none
        ELSE IF order.action = "SELL"
        THEN LET quantity == sell_order_quantity(acct, order, symbol)
             IN  IF order_trades(quantity)
                 THEN done("sell", sell(acct, symbol, execution_price, quantity), quantity)
                 ELSE none
        ELSE none

\* the series df of a run: rows in date order, the date of row k being k;
\* the series of no rows is the frame that is None or empty, or has no row in
\* the range
BarSeries(n) ==
    {[k \in 1..n |-> [date |-> k, open |-> f[k].open, close |-> f[k].close]] :
        f \in [1..n -> BarPrices]}

\* run_single_stock, lines 40 and 52: there is nothing to run on
\* (faulty variant: the tests left out)
df_taken_as_it_is(df) == FALSE
df_unusable(df) == df = <<>>

\* run_single_stock, lines 38-64: with nothing to run on the method returns
\* None at once (pc "no_data") and self.account stays None; otherwise the
\* ledger is created and the loop starts at the first row
InitEngine ==
    /\ initial_capital \in EngineCapitals
    /\ run = 1
    /\ \E n \in 0..MaxBars : bars \in BarSeries(n)
    /\ IF df_unusable(bars)
       THEN account = None /\ pc = "no_data"
       ELSE account = Account(initial_capital) /\ pc = "open"
    /\ i = 1
    /\ pending_order = <<>>
    /\ executed = <<>>
    /\ trades = <<>>
    /\ daily_curves = <<>>
    /\ call = NoCall
    /\ ret = NoRet
    /\ nops = 0
    /\ heldAtSettle = [s \in Symbols |-> 0]
    /\ soldSince = [s \in Symbols |-> 0]
    /\ settlesInARow = 0
    /\ RunnerIdle

historyVars == <<nops, heldAtSettle, soldSince, settlesInARow>>

\* what run_single_stock has returned: <<>> while it runs and when it returns
\* None, <<the result>> after the loop
EngineResult ==
    IF pc = "done" THEN <<[trades |-> trades, curve |-> daily_curves]>> ELSE <<>>

\* line 76: the slot of the pending order after the open
\* (faulty variant: an order that traded nothing is kept for the next open)
slot_keepsUnfilled(order, trds_before, trds_after) ==
    IF trds_after = trds_before THEN order ELSE <<>>
slot_after_open(order, trds_before, trds_after) == <<>>

\* lines 72-76: the pending order, if any, is executed at the open and cleared
EngineOpen ==
    /\ pc = "open"
    /\ IF pending_order # <<>>
       THEN \E fp \in FloatQuotients :
            LET r == _execute_order(account, trades, pending_order[1], EngineSymbol,
                                    bars[i].date, bars[i].open, fp)
            IN  /\ account' = r.account
                /\ trades' = r.trades
                /\ call' = IF r.calls # <<>> THEN r.calls[1].call ELSE call
                /\ ret' = IF r.calls # <<>> THEN r.calls[1].ret ELSE ret
                /\ executed' = pending_order
                /\ pending_order' = slot_after_open(pending_order, trades, r.trades)
       ELSE UNCHANGED <<account, trades, call, ret, executed, pending_order>>
    /\ pc' = "close"
    /\ events' = IF pending_order # <<>> THEN <<"execute">> ELSE <<>>
    /\ UNCHANGED <<bars, i, daily_curves>>
    /\ UNCHANGED instanceVars
    /\ UNCHANGED historyVars
    /\ UNCHANGED rotationVars

\* lines 78-87: valuation at the close and the snapshot of the day
EngineClose ==
    /\ pc = "close"
    /\ LET a == update_market_value(account,
                    [s \in {EngineSymbol} |-> bars[i].close])
       IN  /\ account' = a
           /\ daily_curves' = Append(daily_curves,
                  [date |-> bars[i].date, total_assets |-> a.total_assets,
                   cash |-> a.cash, holdings |-> TotalOf(a, EngineSymbol)])
    /\ pc' = "decide"
    /\ events' = Append(events, "snapshot")
    /\ UNCHANGED <<bars, i, pending_order, executed, trades, call, ret>>
    /\ UNCHANGED instanceVars
    /\ UNCHANGED historyVars
    /\ UNCHANGED rotationVars

\* lines 89-95: strategy.on_bar(row) returns None or an order, which is kept
\* for the next open
EngineDecide ==
    /\ pc = "decide"
    /\ \/ UNCHANGED pending_order
       \/ \E order \in StrategyOrders : pending_order' = <<order>>
    /\ pc' = "settle"
    /\ events' = Append(events, "on_bar")
    /\ UNCHANGED <<account, bars, i, executed, trades, daily_curves, call, ret>>
    /\ UNCHANGED instanceVars
    /\ UNCHANGED historyVars
    /\ UNCHANGED rotationVars

\* lines 97-98: settle(), then the next row or the end of the loop
\* (faulty variant: the call of settle left out)
EngineSettle_leftOut ==
    /\ pc = "settle"
    /\ IF i < Len(bars) THEN i' = i + 1 /\ pc' = "open"
                        ELSE i' = i /\ pc' = "done"
    /\ UNCHANGED <<account, events, bars, pending_order, executed, trades,
                   daily_curves, call, ret>>
    /\ UNCHANGED instanceVars
    /\ UNCHANGED historyVars
    /\ UNCHANGED rotationVars
EngineSettle ==
    /\ pc = "settle"
    /\ account' = settle(account)
    /\ IF i < Len(bars) THEN i' = i + 1 /\ pc' = "open"
                        ELSE i' = i /\ pc' = "done"
    /\ events' = Append(events, "settle")
    /\ UNCHANGED <<bars, pending_order, executed, trades, daily_curves, call, ret>>
    /\ UNCHANGED instanceVars
    /\ UNCHANGED historyVars
    /\ UNCHANGED rotationVars

NextEngine == EngineOpen \/ EngineClose \/ EngineDecide \/ EngineSettle

SpecEngine == InitEngine /\ [][NextEngine]_vars

----------------------------------------------------------------------------
(* PortfolioRunner: src/src/backtest/runner.py *)

\* calendar dates per run of SpecRunner: the range start_date .. end_date is
\* 1 .. MaxDates
MaxDates == 3

\* the symbols the selector may name and the loader has frames for
RunnerSymbols == {"A", "B"}
\* the runner's initial_capital, in ticks: not enough for one lot, the exact
\* cost of 200 shares at 220 yuan (44013.2 yuan), and the default
RunnerCapitals == {1000 * Scale, 440132000, 100000 * Scale}

\* the row of a symbol on a date it trades: A opens at 10 and closes at 11 on
\* odd dates and the reverse on even dates; B opens at 221 and closes at 220
\* on odd dates and the reverse on even dates
RunnerBar(symbol, date) ==
    IF symbol = "A"
    THEN IF date % 2 = 1 THEN [date |-> date, open |-> 10, close |-> 11]
                         ELSE [date |-> date, open |-> 11, close |-> 10]
    ELSE IF date % 2 = 1 THEN [date |-> date, open |-> 221, close |-> 220]
                         ELSE [date |-> date, open |-> 220, close |-> 221]

\* the frames the loader may hold: per symbol and date, <<>> (no row for the
\* date) or <<row>>; a symbol with no row at all is one the loader returns
\* None or an empty frame for
RunnerData ==
    {[s \in RunnerSymbols |->
        [d \in 1..MaxDates |-> IF d \in has[s] THEN <<RunnerBar(s, d)>> ELSE <<>>]] :
     has \in [RunnerSymbols -> SUBSET (1..MaxDates)]}

\* run, lines 62-78: whether the date is a trading day for the holding
\* (faulty variant: every date taken for a trading day)
is_trading_day_always(data, symbol, cached, date) == TRUE
is_trading_day(data, symbol, cached, date) ==
    IF symbol # None
    THEN IF cached = None THEN FALSE ELSE data[cached][date] # <<>>
    ELSE TRUE

\* run, lines 85-88: the curve after a day that is skipped
\* (faulty variants: the copy keeps its date; nothing is recorded)
carry_keepsDate(curves, date) ==
    IF curves # <<>> THEN Append(curves, curves[Len(curves)]) ELSE curves
carry_nothing(curves, date) == curves
carry_forward(curves, date) ==
    IF curves # <<>>
    THEN Append(curves, [curves[Len(curves)] EXCEPT !.date = date])
    ELSE curves

\* run, line 105: the quantity sold when rotating out
\* (faulty variant: the sellable quantity less one lot)
rotation_keepsALot(acct, symbol) == acct.positions[symbol].sellable - LOT
rotation_sell_qty(acct, symbol) == acct.positions[symbol].sellable

\* run, lines 126-132: the target's row of the date, <<>> when its frame is
\* None or empty or has no such row
\* (faulty variant: the latest row up to the date)
RECURSIVE target_row_latest(_, _, _)
target_row_latest(data, symbol, date) ==
    IF date = 0 THEN <<>>
    ELSE IF data[symbol][date] # <<>> THEN data[symbol][date]
    ELSE target_row_latest(data, symbol, date - 1)
target_row(data, symbol, date) == data[symbol][date]

\* run, lines 50-56
InitRunner ==
    /\ initial_capital \in RunnerCapitals
    /\ run = 1
    /\ account = Account(initial_capital)
    /\ stock_data \in RunnerData
    /\ current_symbol = None
    /\ current_stock_data = None
    /\ target_symbol = None
    /\ events = <<>>
    /\ trades = <<>>
    /\ daily_curves = <<>>
    /\ i = 1
    /\ pc = "check"
    /\ bars = <<>>
    /\ pending_order = <<>>
    /\ executed = <<>>
    /\ call = NoCall
    /\ ret = NoRet
    /\ nops = 0
    /\ heldAtSettle = [s \in Symbols |-> 0]
    /\ soldSince = [s \in Symbols |-> 0]
    /\ settlesInARow = 0

\* the for loop moves to the next date or ends
NextDate ==
    IF i < MaxDates THEN i' = i + 1 /\ pc' = "check"
                    ELSE i' = i /\ pc' = "end"

\* lines 60-89: the data of the holding is looked up; a date the holding has
\* no row for is skipped with a copy of the last snapshot
RunnerCheck ==
    /\ pc = "check"
    /\ IF current_symbol # None
          /\ ~is_trading_day(stock_data, current_symbol, current_stock_data, i)
       THEN /\ daily_curves' = carry_forward(daily_curves, i)
            /\ events' = <<"carry">>
            /\ NextDate
       ELSE /\ events' = <<>>
            /\ pc' = "settle_t1"
            /\ UNCHANGED <<daily_curves, i>>
    /\ UNCHANGED <<account, call, ret, trades, bars, pending_order, executed>>
    /\ UNCHANGED instanceVars
    /\ UNCHANGED rotationVars
    /\ UNCHANGED historyVars

\* line 92 (faulty variant: the call left out)
RunnerSettle_leftOut ==
    /\ pc = "settle_t1"
    /\ pc' = "select"
    /\ UNCHANGED <<account, events, call, ret, trades, daily_curves, i, bars,
                   pending_order, executed>>
    /\ UNCHANGED instanceVars
    /\ UNCHANGED rotationVars
    /\ UNCHANGED historyVars
RunnerSettle ==
    /\ pc = "settle_t1"
    /\ account' = settle(account)
    /\ events' = Append(events, "settle")
    /\ pc' = "select"
    /\ UNCHANGED <<call, ret, trades, daily_curves, i, bars, pending_order, executed>>
    /\ UNCHANGED instanceVars
    /\ UNCHANGED rotationVars
    /\ UNCHANGED historyVars

\* line 95: selector.select(date) returns a symbol or None
RunnerSelect ==
    /\ pc = "select"
    /\ \E t \in RunnerSymbols \cup {None} : target_symbol' = t
    /\ events' = Append(events, "select")
    /\ pc' = "sell"
    /\ UNCHANGED <<account, call, ret, trades, daily_curves, i, bars,
                   pending_order, executed>>
    /\ UNCHANGED instanceVars
    /\ UNCHANGED <<stock_data, current_symbol, current_stock_data>>
    /\ UNCHANGED historyVars

\* lines 63-78: the open of the holding on the date, 0 standing for None
\* (both are false where line 104 tests the price)
\* (faulty variant: the close taken for the open)
current_close_for_open(data, cached, date) ==
    IF cached # None /\ data[cached][date] # <<>> THEN data[cached][date][1].close
    ELSE 0
current_open_price(data, cached, date) ==
    IF cached # None /\ data[cached][date] # <<>> THEN data[cached][date][1].open
    ELSE 0

\* lines 99-121: the holding, if it is not the target, is sold at the open
RunnerSell ==
    /\ pc = "sell"
    /\ IF current_symbol # target_symbol /\ current_symbol # None
          /\ current_open_price(stock_data, current_stock_data, i) # 0
       THEN LET open == current_open_price(stock_data, current_stock_data, i)
                sell_qty == rotation_sell_qty(account, current_symbol)
                r == sell(account, current_symbol, open, sell_qty)
            IN  IF sell_qty > 0
                THEN /\ account' = r.account
                     /\ call' = [op |-> "sell", symbol |-> current_symbol,
                                 price |-> open, quantity |-> sell_qty]
                     /\ ret' = r.ret
                     /\ events' = Append(events, "sell")
                     /\ IF r.ret.ok
                        THEN /\ trades' = log_fill(trades, r.ret.details[1], i)
                             /\ current_symbol' = None
                             /\ current_stock_data' = None
                        ELSE UNCHANGED <<trades, current_symbol, current_stock_data>>
                     /\ UNCHANGED target_symbol
                ELSE /\ target_symbol' = current_symbol
                     /\ UNCHANGED <<account, call, ret, events, trades,
                                    current_symbol, current_stock_data>>
       ELSE UNCHANGED <<account, call, ret, events, trades, current_symbol,
                        current_stock_data, target_symbol>>
    /\ pc' = "buy"
    /\ UNCHANGED <<stock_data, daily_curves, i, bars, pending_order, executed>>
    /\ UNCHANGED instanceVars
    /\ UNCHANGED historyVars

\* lines 143-144: what the runner holds after a purchase of the target
\* (faulty variant: the purchase not remembered)
held_after_buy_forgotten(target) == None
held_after_buy(target) == target

\* lines 123-150: the target, if it is not held, is bought at its open with
\* all the cash, provided it has a row for the date
RunnerBuy ==
    /\ pc = "buy"
    /\ IF target_symbol # None /\ target_symbol # current_symbol
          /\ target_row(stock_data, target_symbol, i) # <<>>
       THEN \E fp \in FloatQuotients :
            LET target_open == target_row(stock_data, target_symbol, i)[1].open
                max_qty == get_max_buyable(account, target_open, fp)
                r == buy(account, target_symbol, target_open, max_qty)
            IN  IF max_qty > 0
                THEN /\ account' = r.account
                     /\ call' = [op |-> "buy", symbol |-> target_symbol,
                                 price |-> target_open, quantity |-> max_qty]
                     /\ ret' = r.ret
                     /\ events' = Append(events, "buy")
                     /\ IF r.ret.ok
                        THEN /\ trades' = log_fill(trades, r.ret.details[1], i)
                             /\ current_symbol' = held_after_buy(target_symbol)
                             /\ current_stock_data' = held_after_buy(target_symbol)
                        ELSE UNCHANGED <<trades, current_symbol, current_stock_data>>
                ELSE UNCHANGED <<account, call, ret, events, trades,
                                 current_symbol, current_stock_data>>
       ELSE UNCHANGED <<account, call, ret, events, trades, current_symbol,
                        current_stock_data>>
    /\ pc' = "value"
    /\ UNCHANGED <<stock_data, target_symbol, daily_curves, i, bars,
                   pending_order, executed>>
    /\ UNCHANGED instanceVars
    /\ UNCHANGED historyVars

\* lines 154-162: the mapping current_prices of the valuation: the close of
\* the holding's row for the date, if there is a holding with such a row
\* (faulty variant: the mapping left empty)
close_prices_none(data, symbol, cached, date) == [s \in {} |-> 0]
close_prices(data, symbol, cached, date) ==
    IF symbol # None /\ cached # None /\ data[cached][date] # <<>>
    THEN [s \in {symbol} |-> data[cached][date][1].close]
    ELSE [s \in {} |-> 0]

\* lines 152-172: valuation at the close and the snapshot of the date
RunnerValue ==
    /\ pc = "value"
    /\ LET current_prices ==
               close_prices(stock_data, current_symbol, current_stock_data, i)
           a == update_market_value(account, current_prices)
       IN  /\ account' = a
           /\ daily_curves' = Append(daily_curves,
                  [date |-> i, total_assets |-> a.total_assets, cash |-> a.cash,
                   holdings_symbol |-> current_symbol,
                   holdings_value |-> a.total_assets - a.cash])
    /\ events' = Append(events, "snapshot")
    /\ NextDate
    /\ UNCHANGED <<call, ret, trades, bars, pending_order, executed>>
    /\ UNCHANGED instanceVars
    /\ UNCHANGED rotationVars
    /\ UNCHANGED historyVars

NextRunner ==
    RunnerCheck \/ RunnerSettle \/ RunnerSelect \/ RunnerSell \/ RunnerBuy \/ RunnerValue

SpecRunner == InitRunner /\ [][NextRunner]_vars

\* a run of the engine or a run of the runner
SpecSim == (InitEngine \/ InitRunner) /\ [][NextEngine \/ NextRunner]_vars

\* calls of run / run_single_stock made on one instance, one after the other
MaxRuns == 2

\* runner.py, lines 53-54: the holding a run starts with
\* (faulty variant: the holding of the run before kept)
holding_kept(held) == held
holding_at_start(held) == None

\* engine.py, line 64: the slot of the pending order a run starts with
\* (faulty variant: the order left by the run before kept)
slot_kept(order) == order
slot_at_start(order) == <<>>

\* PortfolioRunner.run called again when a run is over, with the same loader
\* data and range: lines 50-56. The local target_symbol and the record of
\* the ledger's last call belong to the run that is over
RunnerRerun ==
    /\ pc = "end"
    /\ run < MaxRuns
    /\ run' = run + 1
    /\ account' = Account(initial_capital)
    /\ trades' = <<>>
    /\ daily_curves' = <<>>
    /\ current_stock_data' = holding_at_start(current_stock_data)
    /\ current_symbol' = holding_at_start(current_symbol)
    /\ target_symbol' = None
    /\ i' = 1
    /\ pc' = "check"
    /\ events' = <<>>
    /\ call' = NoCall
    /\ ret' = NoRet
    /\ UNCHANGED <<initial_capital, stock_data, bars, pending_order, executed>>
    /\ UNCHANGED historyVars

\* BacktestEngine.run_single_stock called again when a run is over, with the
\* same loader data and range: lines 38-64. With nothing to run on it
\* returns None again and touches nothing
EngineRerun ==
    /\ pc \in {"done", "no_data"}
    /\ run < MaxRuns
    /\ run' = run + 1
    /\ IF df_unusable(bars)
       THEN UNCHANGED <<account, trades, daily_curves, pending_order, executed,
                        i, pc, events, call, ret>>
       ELSE /\ account' = Account(initial_capital)
            /\ trades' = <<>>
            /\ daily_curves' = <<>>
            /\ pending_order' = slot_at_start(pending_order)
            /\ executed' = <<>>
            /\ i' = 1
            /\ pc' = "open"
            /\ events' = <<>>
            /\ call' = NoCall
            /\ ret' = NoRet
    /\ UNCHANGED <<initial_capital, bars>>
    /\ UNCHANGED rotationVars
    /\ UNCHANGED historyVars

NextRerun == NextEngine \/ NextRunner \/ RunnerRerun \/ EngineRerun

\* runs of the engine, or of the runner, one after the other on one instance
SpecRerun == (InitEngine \/ InitRunner) /\ [][NextRerun]_vars

----------------------------------------------------------------------------
(* Properties of the ledger, checked under Spec *)

\* what a successful buy / sell / a rejected call looks like from the state
BuyDone == call.op = "buy" /\ ret.ok
SellDone == call.op = "sell" /\ ret.ok
\* every symbol other than s has the same entry, or the same absence of one
OthersUnchanged(before, after, s) ==
    \A o \in Symbols \ {s} :
        /\ (o \in DOMAIN after.positions) <=> (o \in DOMAIN before.positions)
        /\ o \in DOMAIN before.positions => after.positions[o] = before.positions[o]

\* C1: cash is never negative, whatever calls are made on the ledger.
\* Stated as the claim states it; the ledger violates it, since sell() credits
\* a negative net revenue when commission and stamp duty exceed the amount.
C1_CashNeverNegative == account.cash >= 0

\* C2: every position in the mapping has 0 <= sellable <= total.
C2_SellableWithinTotal ==
    \A s \in DOMAIN account.positions :
        /\ 0 <= account.positions[s].sellable
        /\ account.positions[s].sellable <= account.positions[s].total

\* a position part of which is settlement-locked
C2_Witness ==
    /\ "A" \in DOMAIN account.positions
    /\ account.positions["A"].sellable = 999
    /\ account.positions["A"].total = 1000

\* C3 as stated: right after a successful buy the bought symbol has sellable 0.
C3_SellableZeroAfterBuy ==
    BuyDone => SellableOf(account, call.symbol) = 0

\* C3 as amended: a buy leaves the bought symbol's sellable quantity as it was
\* (0 when the symbol had no entry), no call other than settle() raises the
\* sellable quantity of any symbol, and settle() makes sellable equal to the
\* total held, leaving the totals as they were.
C3_TPlusOne ==
    [][ /\ call'.op = "buy" =>
              SellableOf(account', call'.symbol) = SellableOf(account, call'.symbol)
        /\ call'.op # "settle" =>
              \A s \in Symbols : SellableOf(account', s) <= SellableOf(account, s)
        /\ call'.op = "settle" =>
              /\ DOMAIN account'.positions = DOMAIN account.positions
              /\ \A s \in DOMAIN account.positions :
                    /\ account'.positions[s].total = account.positions[s].total
                    /\ account'.positions[s].sellable = account.positions[s].total
      ]_vars

\* more shares of a symbol bought on top of an unlocked holding of it
C3_Witness ==
    /\ BuyDone
    /\ call.quantity = 1
    /\ account.positions[call.symbol] = [total |-> 1001, sellable |-> 1000]

\* C4: between two settle() calls, the quantity of a symbol sold never exceeds
\* the total of it held at the earlier settle(), whatever is bought meanwhile.
C4_SoldWithinSettled ==
    \A s \in Symbols : soldSince[s] <= heldAtSettle[s]

\* everything held at the last settle() was sold, the shares bought since remain
C4_Witness ==
    /\ SellDone
    /\ soldSince["A"] = 1000
    /\ heldAtSettle["A"] = 1000
    /\ TotalOf(account, "A") = 1

\* C5: a successful buy debits price*q plus commission, adds q to the symbol's
\* total (creating the entry), leaves its sellable quantity and all other
\* entries alone and returns a fill with stamp duty 0; Scenario A: from a new
\* ledger of 100000, 1000 shares at 10 cost commission 5.0, leave cash 89995.0.
C5_BuyEffect ==
    [][ (call'.op = "buy" /\ ret'.ok) =>
          LET s == call'.symbol
              q == call'.quantity
              amount == call'.price * q * Scale
              fill == ret'.details[1]
          IN  /\ account'.cash = account.cash - (amount + _get_commission(amount))
              /\ s \in DOMAIN account'.positions
              /\ account'.positions[s].total = TotalOf(account, s) + q
              /\ account'.positions[s].sellable = SellableOf(account, s)
              /\ OthersUnchanged(account, account', s)
              /\ fill.stamp_duty = 0
              /\ fill.action = "BUY"
              /\ (account = Account(100000 * Scale) /\ call'.price = 10 /\ q = 1000) =>
                    /\ fill.commission = 5 * Scale
                    /\ account'.cash = 89995 * Scale
                    /\ account'.positions = [x \in {s} |-> [total |-> 1000, sellable |-> 0]]
      ]_vars

\* Scenario A
C5_Witness ==
    /\ BuyDone
    /\ call = [op |-> "buy", symbol |-> "A", price |-> 10, quantity |-> 1000]
    /\ account.cash = 89995 * Scale
    /\ account.positions = [x \in {"A"} |-> [total |-> 1000, sellable |-> 0]]

\* C6: a successful sell credits price*q less commission and stamp duty, takes
\* q off the symbol's total and sellable, removes the entry when the total
\* reaches 0 and leaves the other entries alone; Scenario C: after Scenario A
\* and a settle(), 1000 shares at 11 net 10989.5 and leave cash 100984.5.
C6_SellEffect ==
    [][ (call'.op = "sell" /\ ret'.ok) =>
          LET s == call'.symbol
              q == call'.quantity
              amount == call'.price * q * Scale
              net == amount - _get_commission(amount) - _get_stamp_duty(amount)
              fill == ret'.details[1]
          IN  /\ account'.cash = account.cash + net
              /\ fill.net_revenue = net
              /\ TotalOf(account', s) = account.positions[s].total - q
              /\ SellableOf(account', s) = account.positions[s].sellable - q
              /\ (s \in DOMAIN account'.positions) <=> (account.positions[s].total # q)
              /\ OthersUnchanged(account, account', s)
              /\ (/\ account.cash = 89995 * Scale
                  /\ account.positions = [x \in {s} |-> [total |-> 1000, sellable |-> 1000]]
                  /\ call'.price = 11 /\ q = 1000) =>
                    /\ fill.net_revenue = 10989 * Scale + Scale \div 2
                    /\ account'.cash = 100984 * Scale + Scale \div 2
                    /\ account'.positions = NoPositions
      ]_vars

\* Scenario C
C6_Witness ==
    /\ SellDone
    /\ call = [op |-> "sell", symbol |-> "A", price |-> 11, quantity |-> 1000]
    /\ account.cash = 100984 * Scale + Scale \div 2
    /\ account.positions = NoPositions

\* C7: a buy is rejected for its quantity exactly when q <= 0 and for cash
\* exactly when q > 0 and price*q + commission > cash, so that a buy costing
\* exactly the cash succeeds; a rejected buy returns (False, message, None)
\* and leaves the ledger as it was.
C7_BuyRejection ==
    [][ call'.op = "buy" =>
          LET q == call'.quantity
              amount == call'.price * q * Scale
              cost == amount + _get_commission(amount)
          IN  /\ (ret'.msg = "Quantity must be positive") <=> (q <= 0)
              /\ (ret'.msg = "Insufficient cash") <=> (q > 0 /\ cost > account.cash)
              /\ ret'.ok <=> (q > 0 /\ cost <= account.cash)
              /\ ~ret'.ok => (ret'.details = <<>> /\ account' = account)
      ]_vars

\* a buy rejected for cash on a ledger that an exact-cost buy has emptied
C7_Witness ==
    /\ call.op = "buy"
    /\ ~ret.ok
    /\ ret.msg = "Insufficient cash"
    /\ account.cash = 0
    /\ TotalOf(account, "A") = 1

\* C8 as stated: a sell of a symbol that has no position is rejected as an
\* unknown symbol, a sell of more than the sellable quantity as insufficient,
\* and a rejected sell leaves the ledger as it was.
C8_SellRejectionAsStated ==
    [][ call'.op = "sell" =>
          LET s == call'.symbol
              q == call'.quantity
          IN  /\ s \notin DOMAIN account.positions =>
                    (~ret'.ok /\ ret'.msg = "Symbol not in portfolio")
              /\ (s \in DOMAIN account.positions /\ q > account.positions[s].sellable) =>
                    (~ret'.ok /\ ret'.msg = "Insufficient sellable quantity")
              /\ ~ret'.ok => account' = account
      ]_vars

\* C8 as amended: a sell with q <= 0 is rejected for its quantity, whether or
\* not the symbol is held; with q > 0 it is rejected as an unknown symbol
\* exactly when the symbol has no position and as insufficient exactly when
\* the symbol is held and q exceeds its sellable quantity; a rejected sell
\* returns no fill and leaves the ledger as it was.  Scenario B: selling the
\* 1000 shares just bought, with no settle() since, is rejected as insufficient.
C8_SellRejection ==
    [][ call'.op = "sell" =>
          LET s == call'.symbol
              q == call'.quantity
              held == s \in DOMAIN account.positions
          IN  /\ (ret'.msg = "Quantity must be positive") <=> (q <= 0)
              /\ (ret'.msg = "Symbol not in portfolio") <=> (q > 0 /\ ~held)
              /\ (ret'.msg = "Insufficient sellable quantity") <=>
                    (q > 0 /\ held /\ q > SellableOf(account, s))
              /\ ret'.ok <=> (q > 0 /\ held /\ q <= SellableOf(account, s))
              /\ ~ret'.ok => (ret'.details = <<>> /\ account' = account)
              /\ (/\ call = [op |-> "buy", symbol |-> s, price |-> call.price,
                             quantity |-> 1000]
                  /\ ret.ok
                  /\ account.positions[s] = [total |-> 1000, sellable |-> 0]
                  /\ q = 1000) =>
                    ret'.msg = "Insufficient sellable quantity"
      ]_vars

\* Scenario B
C8_Witness ==
    /\ call.op = "sell"
    /\ call.quantity = 1000
    /\ ~ret.ok
    /\ ret.msg = "Insufficient sellable quantity"
    /\ nops = 2
    /\ account.positions[call.symbol] = [total |-> 1000, sellable |-> 0]

\* C9: a settle() that directly follows a settle() changes nothing: cash and
\* every entry are as the first settle() left them, with sellable == total.
C9_SettleIdempotent ==
    [][ (call.op = "settle" /\ call'.op = "settle") =>
          /\ account' = account
          /\ \A s \in DOMAIN account'.positions :
                account'.positions[s].sellable = account'.positions[s].total
      ]_vars

\* two settle() calls in a row on a ledger that holds a position
C9_Witness ==
    /\ call.op = "settle"
    /\ settlesInARow >= 2
    /\ account.positions = [x \in {"A"} |-> [total |-> 1000, sellable |-> 1000]]

----------------------------------------------------------------------------
(* Properties of the single-symbol engine, checked under SpecEngine *)

\* the engine is about to pass a SELL order of pct >= 0.99 to _execute_order
\* while the ledger holds the symbol
LiquidationDue ==
    /\ pc = "open"
    /\ pending_order # <<>>
    /\ pending_order[1].action = "SELL"
    /\ pending_order[1].pct >= PctAll
    /\ EngineSymbol \in DOMAIN account.positions

\* C10 as stated: executing a SELL order of pct >= 0.99 while a position is
\* held always leaves the ledger without an entry for the symbol.
C10_LiquidationAsStated ==
    [][ LiquidationDue => EngineSymbol \notin DOMAIN account'.positions ]_vars

\* C10 as amended: executing a SELL order of pct >= 0.99 while a position is
\* held sells the whole position, whatever its size, and removes the entry,
\* unless the order is a limit order whose limit price is above the execution
\* price, which trades nothing.
C10_FullLiquidation ==
    [][ LiquidationDue =>
          IF limit_blocked(pending_order[1], bars[i].open)
          THEN account' = account /\ trades' = trades
          ELSE /\ EngineSymbol \notin DOMAIN account'.positions
               /\ Len(trades') = Len(trades) + 1
               /\ trades'[Len(trades')].action = "SELL"
               /\ trades'[Len(trades')].quantity = account.positions[EngineSymbol].total
      ]_vars

\* a position of 150 shares, not a multiple of the lot, sold whole at this open
C10_Witness ==
    /\ pc = "close"
    /\ executed = <<Order("SELL", "market", 0, 99, 0)>>
    /\ trades # <<>>
    /\ trades[Len(trades)].action = "SELL"
    /\ trades[Len(trades)].quantity = 150
    /\ trades[Len(trades)].date = bars[i].date
    /\ account.positions = NoPositions

----------------------------------------------------------------------------
(* Properties of get_max_buyable, checked under SpecMaxBuy *)

\* the step is a buy at the price get_max_buyable was just asked about
BuysAtQuotedPrice ==
    /\ call.op = "get_max_buyable"
    /\ call.price > 0
    /\ call'.op = "buy"
    /\ call'.price = call.price

\* C11: get_max_buyable(price) is the largest affordable multiple of 100.
\* For price > 0 and a result Q > 0, buying Q at that price from the same
\* ledger succeeds and buying Q + 100 is rejected; when the result is 0,
\* buying 100 is rejected. Stated as the claim states it; the ledger violates
\* it where the cash is exactly the cost of a lot multiple and the double
\* quotient falls below it.
C11_MaxBuyableIsLargest ==
    [][ BuysAtQuotedPrice =>
          /\ (call.quantity > 0 /\ call'.quantity = call.quantity) => ret'.ok
          /\ (call.quantity > 0 /\ call'.quantity = call.quantity + LOT) => ~ret'.ok
          /\ (call.quantity = 0 /\ call'.quantity = LOT) => ~ret'.ok
      ]_vars

\* C12: for any price and any cash, get_max_buyable(price) is a non-negative
\* multiple of 100; it is 0 when price <= 0 and when the cash is below the
\* minimum commission.
C12_MaxBuyableLotMultiple ==
    call.op = "get_max_buyable" =>
        /\ call.quantity >= 0
        /\ call.quantity % LOT = 0
        /\ call.price <= 0 => call.quantity = 0
        /\ account.cash < MIN_COMMISSION => call.quantity = 0

\* 100000 yuan at 10 yuan: the estimates are 9997 and 9999, the result 9900
C12_Witness ==
    /\ call.op = "get_max_buyable"
    /\ call.price = 10
    /\ account.cash = 100000 * Scale
    /\ call.quantity = 9900

----------------------------------------------------------------------------
(* Properties of the fees, checked under SpecFees *)

\* C13: the commission of a fill of amount a is never below MIN_COMMISSION,
\* is MIN_COMMISSION when a * COMMISSION_RATE is below it and
\* a * COMMISSION_RATE otherwise; the stamp duty of a sell fill is
\* a * STAMP_DUTY and that of a buy fill is 0.
C13_FeeFloor ==
    (BuyDone \/ SellDone) =>
        LET a == TradeAmount(call.price, call.quantity)
            byRate == (a \div Scale) * COMMISSION_RATE_NUM
            fill == ret.details[1]
        IN  /\ fill.commission >= MIN_COMMISSION
            /\ byRate < MIN_COMMISSION => fill.commission = MIN_COMMISSION
            /\ byRate >= MIN_COMMISSION => fill.commission = byRate
            /\ fill.action = "BUY" =>
                   fill.stamp_duty = 0 /\ fill.total_cost = a + fill.commission
            /\ fill.action = "SELL" =>
                   fill.stamp_duty = (a \div Scale) * STAMP_DUTY_NUM

\* a sell of 2000 shares at 10 yuan: 20000 yuan, commission 6 yuan (above the
\* floor), stamp duty 10 yuan
C13_Witness ==
    /\ SellDone
    /\ call.price = 10
    /\ call.quantity = 2000
    /\ ret.details[1].commission = 6 * Scale
    /\ ret.details[1].stamp_duty = 10 * Scale

----------------------------------------------------------------------------
(* Checked under Spec *)

\* C14: every symbol present in the positions mapping has total > 0.
C14_NoZeroEntry == \A s \in DOMAIN account.positions : account.positions[s].total > 0

\* the whole of A has just been sold and its entry is gone, B still held
C14_Witness ==
    /\ SellDone
    /\ call.symbol = "A"
    /\ "A" \notin DOMAIN account.positions
    /\ "B" \in DOMAIN account.positions

----------------------------------------------------------------------------
(* Properties of the runner and of the engine's loop *)

\* the runner is between two dates, or past the last one
BetweenDates == pc \in {"check", "end"}
\* how many times the iteration has done what
Calls(ev, what) == Cardinality({k \in 1..Len(ev) : ev[k] = what})
\* the holding has no row on the date the runner is at
HoldingHasNoBar == current_symbol # None /\ stock_data[current_symbol][i] = <<>>

C16_OneSnapshotPerDate ==
    /\ pc \in {"check", "settle_t1", "select", "sell", "buy", "value"} =>
           Len(daily_curves) = i - 1
    /\ pc = "end" => Len(daily_curves) = MaxDates
    /\ pc \in {"check", "settle_t1", "select", "sell", "buy", "value", "end"} =>
           \A k \in 1..Len(daily_curves) : daily_curves[k].date = k
    /\ pc \in {"open", "close"} => Len(daily_curves) = i - 1
    /\ pc \in {"decide", "settle"} => Len(daily_curves) = i
    /\ pc = "done" => Len(daily_curves) = Len(bars)
    /\ pc \in {"open", "close", "decide", "settle", "done"} =>
           \A k \in 1..Len(daily_curves) : daily_curves[k].date = bars[k].date

\* the runner has reached the end of the range, its last date one the
\* holding had no row for
C16_Witness ==
    /\ pc = "end"
    /\ events = <<"carry">>
    /\ Len(daily_curves) = MaxDates
    /\ daily_curves[MaxDates].date = MaxDates

\* C17 as stated: the selector is called exactly once on every calendar date
\* of the range.
C17_SelectorOncePerDate ==
    (BetweenDates /\ events # <<>>) => Calls(events, "select") = 1

\* C17 as amended: a date is skipped exactly when the runner holds a symbol
\* that has no row on it; the selector is not called on a skipped date and is
\* called exactly once on every other date of the range.
C17_SelectorOncePerProcessedDate ==
    [][ /\ pc = "check" =>
              /\ pc' \in {"check", "end"} <=> HoldingHasNoBar
              /\ pc' \in {"check", "end"} => Calls(events', "select") = 0
        /\ pc = "value" => Calls(events', "select") = 1
      ]_vars

\* the second date was skipped for the holding and the selector not called
C17_Witness ==
    /\ pc = "check"
    /\ i = 3
    /\ events = <<"carry">>
    /\ Calls(events, "select") = 0

\* C18 as stated: settle() is called exactly once on every day the engine
\* or the runner advances over.
C18_SettleOncePerDayAsStated ==
    ((pc \in {"open", "done"} \/ BetweenDates) /\ events # <<>>) =>
        Calls(events, "settle") = 1

\* C18 as amended: in the engine every bar ends with its one settle(), after
\* on_bar has decided and before the decided order is executed at the next
\* open; in the runner every date that is not skipped begins with its one
\* settle(), before the selector is called and anything is sold or bought,
\* and a date skipped because the holding has no row has no settle().
C18_SettleOncePerDay ==
    /\ (pc \in {"open", "done"} /\ events # <<>>) =>
           /\ Calls(events, "settle") = 1
           /\ events[Len(events)] = "settle"
           /\ events[Len(events) - 1] = "on_bar"
    /\ (BetweenDates /\ events # <<>>) =>
           IF events[1] = "carry" THEN Calls(events, "settle") = 0
           ELSE /\ Calls(events, "settle") = 1
                /\ events[1] = "settle"
    /\ pc \in {"select", "sell", "buy", "value"} =>
           Calls(events, "settle") = 1 /\ events[1] = "settle"

\* a date of the runner with a sale and a purchase, the settle() first
C18_Witness ==
    /\ BetweenDates
    /\ events = <<"settle", "select", "sell", "buy", "snapshot">>

\* C19: on a date where the runner holds a symbol that has no row, it
\* appends a copy of the previous snapshot with the new date, leaves cash,
\* positions and the trade log as they are and attempts no sale or purchase.
C19_NonTradingDay ==
    [][ (pc = "check" /\ HoldingHasNoBar) =>
          /\ daily_curves # <<>>
          /\ daily_curves' =
                 Append(daily_curves, [daily_curves[Len(daily_curves)] EXCEPT !.date = i])
          /\ daily_curves'[Len(daily_curves')].holdings_symbol = current_symbol
          /\ daily_curves'[Len(daily_curves')].cash = account.cash
          /\ account' = account
          /\ trades' = trades
          /\ current_symbol' = current_symbol
          /\ call' = call
          /\ events' = <<"carry">>
          /\ pc' \in {"check", "end"}
      ]_vars

\* A, bought on an earlier date, had no row on the date just carried forward
C19_Witness ==
    /\ BetweenDates
    /\ events = <<"carry">>
    /\ current_symbol = "A"
    /\ Len(daily_curves) >= 2
    /\ daily_curves[Len(daily_curves)].total_assets
           = daily_curves[Len(daily_curves) - 1].total_assets
    /\ daily_curves[Len(daily_curves)].date = daily_curves[Len(daily_curves) - 1].date + 1

\* the runner held nothing when the selector named a symbol without a row
\* for the date
TargetHasNoBar ==
    /\ current_symbol = None
    /\ ~(\E k \in 1..Len(events) : events[k] = "sell")
    /\ target_symbol # None
    /\ stock_data[target_symbol][i] = <<>>

\* C20: when the runner holds nothing and the selector returns a symbol that
\* has no row on the date, no trade is logged for the date and its snapshot
\* shows total assets and cash unchanged from the previous date and no symbol
\* held; a purchase on any date is of the symbol the selector returned on
\* that date.
C20_NoBarForTarget ==
    [][ /\ (pc = "buy" /\ TargetHasNoBar) =>
              /\ account' = account
              /\ trades' = trades
              /\ current_symbol' = None
              /\ events' = events
        /\ (pc = "value" /\ TargetHasNoBar) =>
              LET snap == daily_curves'[Len(daily_curves')]
              IN  /\ Len(daily_curves') = Len(daily_curves) + 1
                  /\ snap.date = i
                  /\ snap.holdings_symbol = None
                  /\ snap.holdings_value = 0
                  /\ snap.cash = account.cash
                  /\ snap.total_assets = account.cash
                  /\ account'.cash = account.cash
                  /\ daily_curves # <<>> =>
                         /\ snap.cash = daily_curves[Len(daily_curves)].cash
                         /\ snap.total_assets = daily_curves[Len(daily_curves)].total_assets
                  /\ \A k \in 1..Len(trades) : trades[k].date # i
        /\ (pc = "buy" /\ Len(trades') > Len(trades)) =>
              /\ trades'[Len(trades')].symbol = target_symbol
              /\ trades'[Len(trades')].date = i
              /\ stock_data[target_symbol][i] # <<>>
              /\ Calls(events, "select") = 1
      ]_vars

\* on the third date, after a purchase and a sale of A, the selector names B,
\* which has no row: the date is about to be valued with nothing traded
C20_Witness ==
    /\ pc = "value"
    /\ i = 3
    /\ TargetHasNoBar
    /\ target_symbol = "B"
    /\ events = <<"settle", "select">>
    /\ Len(trades) = 2

\* ---------------------------------------------------------------------------
\* Rotation blocked by T+1 (runner.py, lines 99-121)

\* Where the runner tests the sellable quantity (line 106) every share of the
\* holding is sellable: settle() has run on the date (line 92).  The branch
\* of lines 116-121, taken when that quantity is 0, has no state to run in.
SellableAtRotation ==
    (pc = "sell" /\ current_symbol # None) =>
        /\ TotalOf(account, current_symbol) > 0
        /\ SellableOf(account, current_symbol) = TotalOf(account, current_symbol)

\* ---------------------------------------------------------------------------
\* The engine's pending order (engine.py, lines 64-98)

\* the last fill of a trade log was made at the open of row k
FilledAtOpenOf(trds, k) ==
    /\ trds[Len(trds)].price = bars[k].open
    /\ trds[Len(trds)].date = bars[k].date

\* C22: the engine holds at most one order; the order on_bar returned at the
\* close of a bar is executed once, at the open of the next bar, and the slot
\* is empty afterwards whether a trade was made or not, so that it is empty
\* again at the next decision and an order that traded nothing is not tried
\* at a later open; the trade log changes at no other step; nothing happens
\* after the last bar, so the order returned on it is never executed
C22_PendingOrder ==
    [][/\ Len(pending_order) <= 1 /\ Len(pending_order') <= 1
       /\ pc # "done"
       /\ (pc = "open" /\ pending_order # <<>>) =>
              /\ i > 1
              /\ events' = <<"execute">>
              /\ executed' = pending_order
              /\ pending_order' = <<>>
              /\ trades' # trades =>
                     /\ Len(trades') = Len(trades) + 1
                     /\ SubSeq(trades', 1, Len(trades)) = trades
                     /\ FilledAtOpenOf(trades', i)
       /\ (pc = "open" /\ pending_order = <<>>) =>
              /\ events' = <<>>
              /\ UNCHANGED <<account, trades, executed, pending_order>>
       /\ pc # "open" => UNCHANGED <<trades, executed>>
       /\ pc = "decide" => pending_order = <<>>
       /\ pc \notin {"open", "decide"} => UNCHANGED pending_order
      ]_vars

\* a limit order to buy at 10 decided on the first bar met an open of 11 on
\* the second and traded nothing; the third bar opened at 10 and executed
\* nothing; the order decided on the third, the last, bar is left in the slot
C22_Witness ==
    /\ pc = "done"
    /\ Len(bars) = 3
    /\ bars[2].open = 11
    /\ bars[3].open = 10
    /\ executed = <<Order("BUY", "limit", 0, 100, 10)>>
    /\ events = <<"snapshot", "on_bar", "settle">>
    /\ trades = <<>>
    /\ pending_order # <<>>

\* ---------------------------------------------------------------------------
\* The trade log (engine.py, lines 161-193; runner.py, lines 101-146)

\* the steps that may call buy or sell on the ledger
TradingStep == pc \in {"open", "sell", "buy"}

\* the step moved shares, which a buy or sell does exactly when it succeeds
SharesMoved ==
    \E s \in Symbols : TotalOf(account', s) # TotalOf(account, s)

\* the dates of a log never go back, and on one date no BUY stands before a SELL
Chronological(trds) ==
    \A j, k \in 1..Len(trds) :
        j < k => /\ trds[j].date <= trds[k].date
                 /\ trds[j].date = trds[k].date =>
                        ~(trds[j].action = "BUY" /\ trds[k].action = "SELL")

\* C23: a step of the engine or the runner appends a fill to the trade log
\* exactly when a buy or sell it called on the ledger succeeded, the fill
\* being the details of that call with the current date; no other step
\* changes the log; the dates of the log are non-decreasing, and a SELL of a
\* date comes before the BUY of the same date
C23_TradeLog ==
    [][/\ (TradingStep /\ SharesMoved) =>
              /\ ret'.ok
              /\ trades' = Append(trades, Dated(ret'.details[1], i))
              /\ trades'[Len(trades')].symbol = call'.symbol
              /\ trades'[Len(trades')].quantity = call'.quantity
              /\ trades'[Len(trades')].price = call'.price
       /\ ~(TradingStep /\ SharesMoved) => trades' = trades
       /\ (TradingStep /\ ~SharesMoved /\ <<call, ret>>' # <<call, ret>>) => ~ret'.ok
       /\ Chronological(trades')
      ]_vars

\* the runner has sold its holding and bought the target on one date, after
\* an earlier purchase: the log ends with the SELL and then the BUY of the date
C23_Witness ==
    /\ pc = "value"
    /\ events = <<"settle", "select", "sell", "buy">>
    /\ Len(trades) = 3
    /\ trades[2].action = "SELL" /\ trades[2].date = i
    /\ trades[3].action = "BUY" /\ trades[3].date = i
    /\ trades[1].date < i
    /\ ret.ok

\* ---------------------------------------------------------------------------
\* Runs without data (engine.py, lines 38-54; runner.py, lines 123-177)

\* the positions of an engine run
EngineRun == pc \in {"no_data", "open", "close", "decide", "settle", "done"}

\* a runner run in which no symbol has a bar on any date of the range
NoRunnerData ==
    /\ ~EngineRun
    /\ \A s \in RunnerSymbols : \A d \in 1..MaxDates : stock_data[s][d] = <<>>

\* the run is over
RunOver == pc \in {"no_data", "done", "end"}

\* C24 as stated: a run over a range with no bar for any symbol involved ends
\* with an empty curve
C24_EmptyCurveWithoutData ==
    /\ (pc = "no_data") => daily_curves = <<>>
    /\ (pc = "end" /\ NoRunnerData) => daily_curves = <<>>

\* C24, amended: the engine returns at once, with no result, no trade and no
\* snapshot, exactly when its symbol has no bar in the range; the runner
\* never ends early: with no bar for any symbol it still goes through every
\* date and reports one snapshot per date, each worth the initial capital,
\* and no trade; and nothing else halts a run: a run that is not over can
\* always take its next step, and a run that is over after simulating has a
\* snapshot for every bar or date
C24_DataUnusable ==
    /\ EngineRun => (pc = "no_data" <=> bars = <<>>)
    /\ pc = "no_data" =>
           /\ account = None
           /\ EngineResult = <<>>
           /\ trades = <<>> /\ daily_curves = <<>>
           /\ ~ENABLED NextEngine
    /\ (pc = "end" /\ NoRunnerData) =>
           /\ trades = <<>>
           /\ Len(daily_curves) = MaxDates
           /\ account.cash \in RunnerCapitals
           /\ \A k \in 1..MaxDates :
                  /\ daily_curves[k].date = k
                  /\ daily_curves[k].total_assets = account.cash
                  /\ daily_curves[k].cash = account.cash
                  /\ daily_curves[k].holdings_symbol = None
    /\ ~RunOver => ENABLED (NextEngine \/ NextRunner)
    /\ pc = "done" => Len(daily_curves) = Len(bars) /\ EngineResult # <<>>
    /\ pc = "end" => Len(daily_curves) = MaxDates

\* a runner run without any bar has ended after its selector asked for a
\* symbol on the last date: the curve has a snapshot for every date
C24_Witness ==
    /\ pc = "end"
    /\ NoRunnerData
    /\ target_symbol # None
    /\ Len(daily_curves) = MaxDates
    /\ trades = <<>>

\* ---------------------------------------------------------------------------
\* Valuation (account.py, lines 106-117)

\* the price current_prices gives a symbol, 0 when it has none
PriceIn(current_prices, s) ==
    IF s \in DOMAIN current_prices THEN current_prices[s] ELSE 0

\* the worth of the shares held at the prices of a mapping, in ticks
HeldValue(acct, current_prices) ==
    TotalOf(acct, "A") * PriceIn(current_prices, "A") * Scale
        + TotalOf(acct, "B") * PriceIn(current_prices, "B") * Scale

\* the step is a call of update_market_value
ValuationDone == nops' = nops + 1 /\ call'.op = "update_market_value"

\* C25: update_market_value(prices) returns the cash plus total * price over
\* the symbols held, a held symbol the mapping lacks counting 0, and leaves
\* the cash and every position's total and sellable as they were
C25_UpdateMarketValue ==
    [][ValuationDone =>
          /\ ret'.value = account.cash + HeldValue(account, call'.current_prices)
          /\ account'.total_assets = ret'.value
          /\ account'.cash = account.cash
          /\ account'.positions = account.positions
      ]_vars

\* both symbols are held, A with shares that are not sellable yet, and the
\* mapping of the last valuation priced A and lacked B
C25_Witness ==
    /\ call.op = "update_market_value"
    /\ DOMAIN call.current_prices = {"A"}
    /\ TotalOf(account, "B") > 0
    /\ TotalOf(account, "A") > SellableOf(account, "A")
    /\ ret.value = account.cash + TotalOf(account, "A") * call.current_prices["A"] * Scale

\* ---------------------------------------------------------------------------
\* The rotation's sell step (runner.py, lines 99-121)

\* the runner is at the sell step of a date, holding a symbol that is not
\* the target
RotationDue ==
    pc = "sell" /\ current_symbol # None /\ current_symbol # target_symbol

RotationBuyDue ==
    /\ pc = "buy"
    /\ target_symbol # None /\ target_symbol # current_symbol
    /\ stock_data[target_symbol][i] # <<>>

\* the buy step submits the result of get_max_buyable at the target's open,
\* and the buy succeeds and is logged
RotationBuysMax ==
    RotationBuyDue =>
        LET open == stock_data[target_symbol][i][1].open
        IN  \E fp \in FloatQuotients :
                LET Q == get_max_buyable(account, open, fp)
                IN  /\ Q % LOT = 0
                    /\ IF Q > 0
                       THEN /\ call' = [op |-> "buy", symbol |-> target_symbol,
                                        price |-> open, quantity |-> Q]
                            /\ ret'.ok
                            /\ Len(trades') = Len(trades) + 1
                            /\ trades'[Len(trades')].quantity = Q
                            /\ trades'[Len(trades')].price = open
                            /\ current_symbol' = target_symbol
                       ELSE UNCHANGED <<account, trades, current_symbol>>

\* after a purchase of the buy step the cash left does not pay for one more
\* lot at the same price
NoLotLeftAfterBuy ==
    (RotationBuyDue /\ trades' # trades) =>
        account'.cash < buy_total_cost(TradeAmount(call'.price, LOT))

\* C27: when a target is selected that is not held and has a row for the
\* date, the runner buys max_buyable_quantity(open) shares of it at the open
\* of the date; the buy does not fail for lack of cash, and the cash left
\* after it cannot pay for 100 more shares at that price
C27_RotationBuy == [][RotationBuysMax /\ NoLotLeftAfterBuy]_vars

\* ---------------------------------------------------------------------------
\* The engine's bar (engine.py, lines 66-98)

\* what the engine does on one bar, with and without a pending order
BarWithOrder == <<"execute", "snapshot", "on_bar", "settle">>
BarWithoutOrder == <<"snapshot", "on_bar", "settle">>

\* the bar the last snapshot was taken on is over
BarOver == pc = "done" \/ (pc = "open" /\ i > 1)

\* C28: on every bar the engine executes the pending order, if there is one,
\* at the open, then takes the snapshot at the close, then calls on_bar
\* once, then calls settle. The snapshot shows the cash and the shares as
\* the open left them, valued at the close, and neither on_bar nor settle
\* changes cash, shares or the trade log afterwards, so an order decided on
\* the bar is not in its snapshot; at the open of the next bar every share
\* held is sellable
C28_BarOrder ==
    [][/\ BarOver' => events' \in {BarWithOrder, BarWithoutOrder}
       /\ pc = "close" =>
              LET snap == daily_curves'[Len(daily_curves')]
              IN  /\ events \in {<<"execute">>, <<>>}
                  /\ Len(daily_curves') = Len(daily_curves) + 1
                  /\ snap.date = bars[i].date
                  /\ snap.cash = account.cash
                  /\ snap.holdings = TotalOf(account, EngineSymbol)
                  /\ snap.total_assets = account.cash
                        + TotalOf(account, EngineSymbol) * bars[i].close * Scale
       /\ pc = "decide" =>
              /\ events' = Append(events, "on_bar")
              /\ UNCHANGED <<account, trades, daily_curves>>
       /\ pc = "settle" =>
              /\ events' = Append(events, "settle")
              /\ account'.cash = account.cash
              /\ TotalOf(account', EngineSymbol) = TotalOf(account, EngineSymbol)
              /\ UNCHANGED <<trades, daily_curves>>
       /\ pc' = "open" =>
              SellableOf(account', EngineSymbol) = TotalOf(account', EngineSymbol)
      ]_vars

\* the third bar opens: on the second an order was executed at the open and
\* bought shares, the snapshot of the second bar shows them, on_bar then
\* returned an order that is still pending, and the shares are sellable
C28_Witness ==
    /\ pc = "open" /\ i = 3
    /\ events = BarWithOrder
    /\ Len(trades) = 1 /\ trades[1].action = "BUY" /\ trades[1].date = 2
    /\ daily_curves[2].holdings = trades[1].quantity
    /\ daily_curves[2].cash = account.cash
    /\ SellableOf(account, EngineSymbol) = trades[1].quantity
    /\ pending_order # <<>>

\* ---------------------------------------------------------------------------
\* Limit orders (engine.py, lines 109-123)

\* the engine is at an open with a limit order of the given action pending
LimitDue(action) ==
    /\ pc = "open" /\ pending_order # <<>>
    /\ pending_order[1].type = "limit" /\ pending_order[1].action = action

\* the step logged one fill, of the given action, at the open of the bar
FilledAtOpen(action) ==
    /\ Len(trades') = Len(trades) + 1
    /\ trades'[Len(trades')].action = action
    /\ trades'[Len(trades')].price = bars[i].open

\* C29: a limit order to buy trades nothing (ledger and trade log unchanged)
\* when the open is above its limit, a limit order to sell trades nothing
\* when the open is below its limit; a limit order whose limit the open
\* meets, equality included, is executed like any order, and what it trades
\* it trades at the open, not at the limit: an all-in buy with cash for two
\* lots and an all-out sell with sellable shares are filled at the open
C29_LimitAdmissibility ==
    [][/\ (LimitDue("BUY") /\ bars[i].open > pending_order[1].price) =>
              UNCHANGED <<account, trades>>
       /\ (LimitDue("SELL") /\ bars[i].open < pending_order[1].price) =>
              UNCHANGED <<account, trades>>
       /\ (LimitDue("BUY") /\ bars[i].open <= pending_order[1].price) =>
              /\ trades' # trades => FilledAtOpen("BUY")
              /\ (/\ pending_order[1].pct >= PctAll
                  /\ account.cash >= buy_total_cost(TradeAmount(bars[i].open, 2 * LOT)))
                     => FilledAtOpen("BUY")
       /\ (LimitDue("SELL") /\ bars[i].open >= pending_order[1].price) =>
              /\ trades' # trades => FilledAtOpen("SELL")
              /\ (/\ pending_order[1].pct >= PctAll
                  /\ SellableOf(account, EngineSymbol) > 0)
                     => /\ FilledAtOpen("SELL")
                        /\ trades'[Len(trades')].quantity
                               = SellableOf(account, EngineSymbol)
      ]_vars

\* a limit order to buy at 11 was filled at an open of 10, at 10
C29_Witness ==
    /\ pc = "close"
    /\ events = <<"execute">>
    /\ executed = <<Order("BUY", "limit", 0, 100, 11)>>
    /\ bars[i].open = 10
    /\ trades # <<>>
    /\ trades[Len(trades)].date = bars[i].date
    /\ trades[Len(trades)].price = 10

\* ---------------------------------------------------------------------------
\* The size of a BUY order (engine.py, lines 128-168)

\* the engine is at an open with a BUY order pending that no limit blocks
BuyDue ==
    /\ pc = "open" /\ pending_order # <<>>
    /\ pending_order[1].action = "BUY"
    /\ ~(pending_order[1].type = "limit" /\ bars[i].open > pending_order[1].price)

\* floor(cash * pct / (price * (1 + COMMISSION_RATE))) for a pct that is one
\* n-th (PctDen \div pct = n), floored to the lot
FractionLots(cash, pct, price) ==
    ((cash \div ((PctDen \div pct) * price * (Scale + COMMISSION_RATE_NUM)))
        \div LOT) * LOT

\* the step called buy on the ledger for Q shares at the open, or made no
\* ledger call when Q is 0
Submits(Q) ==
    IF Q > 0
    THEN /\ call' = [op |-> "buy", symbol |-> EngineSymbol,
                     price |-> bars[i].open, quantity |-> Q]
         /\ ret'.ok => /\ Len(trades') = Len(trades) + 1
                        /\ trades'[Len(trades')].quantity = Q
         /\ ~ret'.ok => UNCHANGED <<account, trades>>
    ELSE UNCHANGED <<account, trades, call, ret>>

\* C30: a BUY order with pct >= 0.99 submits get_max_buyable(price); one with
\* a smaller pct submits floor(cash * pct / (price * (1 + COMMISSION_RATE)))
\* floored to a multiple of 100; one with a quantity submits that quantity
\* as it is, a multiple of 100 or not
C30_BuySizing ==
    [][BuyDue =>
          LET order == pending_order[1]
              price == bars[i].open
          IN  IF order.pct >= PctAll
              THEN \E fp \in FloatQuotients :
                       Submits(get_max_buyable(account, price, fp))
              ELSE IF order.pct # 0
              THEN Submits(FractionLots(account.cash, order.pct, price))
              ELSE Submits(order.quantity)
      ]_vars

\* an order for half the cash was executed at an open of 10 with 100000 yuan:
\* 4900 shares, where all the cash would have bought 9900
C30_Witness ==
    /\ pc = "close"
    /\ events = <<"execute">>
    /\ executed = <<Order("BUY", "market", 0, 50, 0)>>
    /\ call = [op |-> "buy", symbol |-> EngineSymbol, price |-> 10, quantity |-> 4900]
    /\ Len(trades) = 1
    /\ trades[1].quantity = 4900
    /\ trades[1].date = bars[i].date

\* ---------------------------------------------------------------------------
\* The size of a SELL order (engine.py, lines 170-193)

\* the engine is at an open with a SELL order pending that no limit blocks
SellDue ==
    /\ pc = "open" /\ pending_order # <<>>
    /\ pending_order[1].action = "SELL"
    /\ ~(pending_order[1].type = "limit" /\ bars[i].open < pending_order[1].price)

\* the step called sell on the ledger for Q shares at the open
SubmitsSell(Q) ==
    call' = [op |-> "sell", symbol |-> EngineSymbol, price |-> bars[i].open,
             quantity |-> Q]

\* the step logged a SELL of Q shares
SoldAndLogged(Q) ==
    /\ ret'.ok
    /\ Len(trades') = Len(trades) + 1
    /\ trades'[Len(trades')].action = "SELL"
    /\ trades'[Len(trades')].quantity = Q
    /\ TotalOf(account', EngineSymbol) = TotalOf(account, EngineSymbol) - Q

\* C31: a SELL order with a pct below 0.99 submits floor(sellable * pct)
\* floored to a multiple of 100, which is never more than the sellable
\* quantity, so that the sell, when the quantity is positive, succeeds; a
\* SELL order with a quantity submits that quantity as it is, and when it is
\* more than the sellable quantity the sell is rejected and ledger and
\* trade log stay as they were
C31_SellSizing ==
    [][SellDue =>
          LET order == pending_order[1]
              sellable == SellableOf(account, EngineSymbol)
              Q == (((sellable * order.pct) \div PctDen) \div LOT) * LOT
          IN  IF order.pct # 0 /\ order.pct < PctAll
              THEN /\ Q <= sellable
                   /\ IF Q > 0 THEN SubmitsSell(Q) /\ SoldAndLogged(Q)
                               ELSE UNCHANGED <<account, trades, call, ret>>
              ELSE IF order.pct = 0 /\ order.quantity > 0
              THEN /\ SubmitsSell(order.quantity)
                   /\ IF order.quantity > sellable
                      THEN ~ret'.ok /\ UNCHANGED <<account, trades>>
                      ELSE SoldAndLogged(order.quantity)
              ELSE TRUE
      ]_vars

\* an order to sell 150 shares met a position of 100 sellable shares and
\* was dropped: the position is still there and nothing was logged as sold
C31_Witness ==
    /\ pc = "close"
    /\ events = <<"execute">>
    /\ executed = <<Order("SELL", "market", 150, 0, 0)>>
    /\ call = [op |-> "sell", symbol |-> EngineSymbol, price |-> bars[i].open,
               quantity |-> 150]
    /\ ~ret.ok
    /\ account.positions = [x \in {EngineSymbol} |-> [total |-> 100, sellable |-> 100]]
    /\ Len(trades) = 1

\* ---------------------------------------------------------------------------
\* Orders of no size (engine.py, lines 125-193)

\* the order at the head of the slot is one whose quantity comes out as zero
\* or less at this open: a quantity that is not positive, all or a part of
\* a cash that does not pay for a lot, all of no sellable shares, or a part
\* of the sellable shares that is less than a lot
ZeroSized ==
    LET order == pending_order[1]
        price == bars[i].open
        sellable == SellableOf(account, EngineSymbol)
    IN  \/ order.pct = 0 /\ order.quantity <= 0
        \/ /\ order.action = "BUY" /\ order.pct >= PctAll
           /\ account.cash < buy_total_cost(TradeAmount(price, LOT))
        \/ /\ order.action = "BUY" /\ order.pct # 0 /\ order.pct < PctAll
           /\ FractionLots(account.cash, order.pct, price) <= 0
        \/ /\ order.action = "SELL" /\ order.pct >= PctAll /\ sellable = 0
        \/ /\ order.action = "SELL" /\ order.pct # 0 /\ order.pct < PctAll
           /\ (sellable * order.pct) \div PctDen < LOT

\* C32: an order whose quantity comes out as zero or negative does nothing:
\* neither buy nor sell is called on the ledger, cash and positions stay as
\* they are, the trade log gets nothing, and the engine goes on to the close
\* of the bar with the slot empty
C32_ZeroQuantityNoOp ==
    [][(pc = "open" /\ pending_order # <<>> /\ ZeroSized) =>
          /\ UNCHANGED <<account, trades, call, ret>>
          /\ pc' = "close"
          /\ events' = <<"execute">>
          /\ pending_order' = <<>>
      ]_vars

\* an order to buy -100 shares was executed on the second bar of a run:
\* the ledger was never called and holds the initial capital
C32_Witness ==
    /\ pc = "close"
    /\ events = <<"execute">>
    /\ executed = <<Order("BUY", "market", -100, 0, 0)>>
    /\ i = 2
    /\ call = NoCall
    /\ trades = <<>>
    /\ account.cash \in EngineCapitals
    /\ account.positions = NoPositions

\* ---------------------------------------------------------------------------
\* Snapshots (runner.py, lines 152-172; engine.py, lines 78-87)

RECURSIVE CashAfterLog(_, _, _)
CashAfterLog(c, trds, k) ==
    IF k > Len(trds) THEN c
    ELSE CashAfterLog(IF trds[k].action = "BUY" THEN c - trds[k].total_cost
                                                ELSE c + trds[k].net_revenue,
                      trds, k + 1)

\* the shares of a symbol a log has bought minus those it has sold, from
\* the k-th fill on
RECURSIVE SharesOfLog(_, _, _)
SharesOfLog(trds, s, k) ==
    IF k > Len(trds) THEN 0
    ELSE (IF trds[k].symbol # s THEN 0
          ELSE IF trds[k].action = "BUY" THEN trds[k].quantity
          ELSE -trds[k].quantity)
         + SharesOfLog(trds, s, k + 1)

\* C34: in a run of the runner or the engine the ledger and the trade log
\* agree: the cash is the initial capital minus the total cost of every
\* logged BUY plus the net revenue of every logged SELL, and the total of
\* each symbol is the quantity the log bought minus the quantity it sold
C34_LedgerMatchesLog ==
    pc # "no_data" =>
        /\ account.cash = CashAfterLog(initial_capital, trades, 1)
        /\ \A s \in Symbols : TotalOf(account, s) = SharesOfLog(trades, s, 1)

\* a run of the runner has ended with three fills logged, a SELL among
\* them, and shares still held
C34_Witness ==
    /\ pc = "end"
    /\ Len(trades) = 3
    /\ trades[2].action = "SELL"
    /\ current_symbol # None
    /\ account.cash # initial_capital
    /\ TotalOf(account, current_symbol) = trades[3].quantity

\* ---------------------------------------------------------------------------
\* The shape of the runner's trade log (runner.py, lines 97-150)

C37_RunnerLots ==
    \A k \in 1..Len(trades) :
        trades[k].quantity > 0 /\ trades[k].quantity % LOT = 0

\* 9900 shares of A bought and sold, and 400 shares of B bought with the
\* proceeds, which would pay for 498
C37_Witness ==
    /\ Len(trades) = 3
    /\ trades[1].action = "BUY" /\ trades[1].quantity = 9900
    /\ trades[2].action = "SELL" /\ trades[2].quantity = 9900
    /\ trades[3].action = "BUY" /\ trades[3].symbol = "B"
    /\ trades[3].quantity = 400
    /\ account.cash > buy_total_cost(TradeAmount(trades[3].price, 98))

\* ---------------------------------------------------------------------------
\* The revenue of a sale (account.py, lines 79-85)

\* C38: a sell that succeeds has a net revenue that is not negative: it does
\* not decrease the cash, whatever the positive price and the quantity.
\* Stated as the claim states it; the ledger violates it where the minimum
\* commission and the stamp duty exceed the trade amount
C38_SellNeverCosts ==
    [][(nops' = nops + 1 /\ call'.op = "sell" /\ ret'.ok) =>
          /\ ret'.details[1].net_revenue >= 0
          /\ account'.cash >= account.cash
      ]_vars

\* ---------------------------------------------------------------------------
\* Runs on one instance (runner.py, lines 50-56; engine.py, lines 56-64)

\* the state a run of the runner or the engine starts in, for the capital
\* and the data of the instance: what InitRunner and InitEngine say of
\* every variable but the number of the run
StartOfRun ==
    /\ trades = <<>> /\ daily_curves = <<>>
    /\ pending_order = <<>> /\ executed = <<>>
    /\ i = 1 /\ events = <<>>
    /\ call = NoCall /\ ret = NoRet
    /\ current_symbol = None /\ current_stock_data = None
    /\ target_symbol = None
    /\ IF pc = "no_data"
       THEN account = None /\ df_unusable(bars)
       ELSE /\ account = Account(initial_capital)
            /\ \/ pc = "check" /\ stock_data \in RunnerData /\ bars = <<>>
               \/ pc = "open" /\ stock_data = <<>> /\ ~df_unusable(bars)

\* C39: nothing of a run is left for the next: a second call of run or
\* run_single_stock on the instance starts in the state the first call
\* started in, with the ledger at the initial capital, no trades, no
\* snapshots, no pending order and no holding, the capital and the data
\* being the same; so the second run, given the same decisions, does what
\* the first did. A run never changes the capital or the data
C39_FreshRun ==
    [][/\ run' # run => StartOfRun'
       /\ UNCHANGED <<initial_capital, stock_data, bars>>
      ]_vars

\* the second run of a runner is over: started with nothing held and the
\* ledger at the initial capital, it bought on its first date out of that
\* capital, rotated on the last date and ends with a symbol held
C39_Witness ==
    /\ run = MaxRuns
    /\ pc = "end"
    /\ Len(trades) = 3
    /\ trades[1].action = "BUY" /\ trades[1].date = 1
    /\ trades[1].total_cost + daily_curves[1].cash = initial_capital
    /\ trades[3].action = "BUY" /\ trades[3].date = MaxDates
    /\ current_symbol = trades[3].symbol
====
